---- MODULE Spec2Model ----
(***************************************************************************)
(* A model of the Tendermint-like node: the round state machine            *)
(* (consensus/state.rs), the message dispatcher and broadcast              *)
(* (consensus/mod.rs), the peer registry (p2p/peer.rs) and the one-shot    *)
(* outbound send (p2p/transport.rs).                                       *)
(*                                                                         *)
(* Strings are modelled as follows.  A block identifier is the tuple       *)
(* <<"block", n>>: the round timer's format!("block-{}", uuid) with the    *)
(* n-th generated uuid, or an arbitrary string sent by a peer (n >= 101).  *)
(* Option<T> is a sequence of length at most one: None is << >> and        *)
(* Some(x) is <<x>>.  A HashMap is a function over the set of its keys.    *)
(***************************************************************************)
EXTENDS Integers, Sequences, FiniteSets, TLC

\* ---------------------------------------------------------------- bounds
\* The round timer stops ticking once round reaches MaxRound.
MaxRound == 2
\* The frames one connection delivers before the model stops reading from it.
MaxFrames == 2

\* ------------------------------------------------------------ value sets
None == << >>
Some(x) == <<x>>

Steps == {"Propose", "Prevote", "Precommit", "Commit"}

NodeIds == {"A", "B"}
Voters == {"v1", "v2"}
Proposers == {"p1", "p2"}
Hashes == {"h1", "h2"}
PeerBlocks == {<<"block", 101>>, <<"block", 102>>}
RoundArgs == 0 .. (MaxRound + 1)

\* Address strings a peer may claim in PeerInfo.  The first two are
\* "ip:port" literals; the last one names a host and is not.
AddrStrings == {"10.0.0.1:7000", "10.0.0.1:7001", "localhost:7000"}

\* --------------------------------------------------------------- HashMap
EmptyMap == << >>

\* HashMap::insert: the key's previous value, if any, is replaced.
insert(m, k, v) == [x \in (DOMAIN m) \cup {k} |-> IF x = k THEN v ELSE m[x]]

\* HashMap::get.
Get(m, k) == IF k \in DOMAIN m THEN Some(m[k]) ELSE None

\* ------------------------------------------------------------ RoundState
RoundState_new ==
    [round |-> 0, step |-> "Propose", proposal |-> None,
     locked_block_hash |-> None, prevotes |-> EmptyMap, precommits |-> EmptyMap]

\* ------------------------------------------------------------- P2PMessage
PeerInfo(n, a) == [type |-> "PeerInfo", node_id |-> n, listen_addr |-> a]
Proposal(p, r, b) == [type |-> "Proposal", proposer_id |-> p, round |-> r, block |-> b]
Prevote(v, r, h) == [type |-> "Prevote", voter_id |-> v, round |-> r, block_hash |-> h]
Precommit(v, r, h) == [type |-> "Precommit", voter_id |-> v, round |-> r, block_hash |-> h]
Commit(h, r) == [type |-> "Commit", block_hash |-> h, round |-> r]

P2PMessage ==
    {PeerInfo(n, a) : n \in NodeIds, a \in AddrStrings}
    \cup {Proposal(p, r, b) : p \in Proposers, r \in RoundArgs, b \in PeerBlocks}
    \cup {Prevote(v, r, h) : v \in Voters, r \in RoundArgs, h \in Hashes}
    \cup {Precommit(v, r, h) : v \in Voters, r \in RoundArgs, h \in Hashes}
    \cup {Commit(h, r) : h \in Hashes, r \in RoundArgs}

\* ------------------------------------------------- ConsensusCore methods
\* Each method is a function of the round state; the on_* methods return
\* the new round state together with their Result.
\* start_new_round without line 56: the step of the abandoned round is kept.
start_new_round_keeps_step(rs, block) ==
    [round |-> rs.round + 1,
     step |-> rs.step,
     proposal |-> Some(block),
     locked_block_hash |-> None,
     prevotes |-> EmptyMap,
     precommits |-> EmptyMap]

\* start_new_round without line 60: the precommits of the abandoned round
\* are kept.
start_new_round_keeps_precommits(rs, block) ==
    [round |-> rs.round + 1,
     step |-> "Propose",
     proposal |-> Some(block),
     locked_block_hash |-> None,
     prevotes |-> EmptyMap,
     precommits |-> rs.precommits]

\* start_new_round that leaves the prevotes of the round before in place.
start_new_round_keeps_prevotes(rs, block) ==
    [round |-> rs.round + 1,
     step |-> "Propose",
     proposal |-> Some(block),
     locked_block_hash |-> None,
     prevotes |-> rs.prevotes,
     precommits |-> EmptyMap]

\* start_new_round that clears the proposal and waits for the proposer's.
start_new_round_clears_proposal(rs, block) ==
    [round |-> rs.round + 1,
     step |-> "Propose",
     proposal |-> None,
     locked_block_hash |-> None,
     prevotes |-> EmptyMap,
     precommits |-> EmptyMap]

start_new_round(rs, block) ==
    [round |-> rs.round + 1,
     step |-> "Propose",
     proposal |-> Some(block),
     locked_block_hash |-> None,
     prevotes |-> EmptyMap,
     precommits |-> EmptyMap]

\* on_proposal without the stale-round test of lines 79-81.
on_proposal_accepts_stale(rs, proposer_id, round, block) ==
    IF rs.step # "Propose" THEN [rs |-> rs, ret |-> "Ok"]
    ELSE [rs |-> [rs EXCEPT !.proposal = Some(block)], ret |-> "Ok"]

\* on_proposal that also adopts the round of a proposal from a later round.
on_proposal_catches_up(rs, proposer_id, round, block) ==
    IF round < rs.round THEN [rs |-> rs, ret |-> "Ok"]
    ELSE IF rs.step # "Propose" THEN [rs |-> rs, ret |-> "Ok"]
    ELSE [rs |-> [rs EXCEPT !.proposal = Some(block), !.round = round], ret |-> "Ok"]

\* on_proposal that reports a proposal of an older round as an error.
on_proposal_rejects_stale(rs, proposer_id, round, block) ==
    IF round < rs.round THEN [rs |-> rs, ret |-> "Err"]
    ELSE IF rs.step # "Propose" THEN [rs |-> rs, ret |-> "Ok"]
    ELSE [rs |-> [rs EXCEPT !.proposal = Some(block)], ret |-> "Ok"]

\* on_proposal that accepts a proposal of the current round only.
on_proposal_current_round_only(rs, proposer_id, round, block) ==
    IF round # rs.round THEN [rs |-> rs, ret |-> "Ok"]
    ELSE IF rs.step # "Propose" THEN [rs |-> rs, ret |-> "Ok"]
    ELSE [rs |-> [rs EXCEPT !.proposal = Some(block)], ret |-> "Ok"]

on_proposal(rs, proposer_id, round, block) ==
    IF round < rs.round THEN [rs |-> rs, ret |-> "Ok"]
    ELSE IF rs.step # "Propose" THEN [rs |-> rs, ret |-> "Ok"]
    ELSE [rs |-> [rs EXCEPT !.proposal = Some(block)], ret |-> "Ok"]

\* on_prevote that moves the round to the Prevote step, as the full
\* protocol would.
on_prevote_advances_step(rs, voter_id, round, block_hash) ==
    [rs |-> [rs EXCEPT !.prevotes = insert(@, voter_id, block_hash), !.step = "Prevote"],
     ret |-> "Ok"]

\* on_prevote with entry().or_insert(): a voter's first vote is kept.
on_prevote_keeps_first(rs, voter_id, round, block_hash) ==
    [rs |-> [rs EXCEPT !.prevotes =
                IF voter_id \in DOMAIN @ THEN @ ELSE insert(@, voter_id, block_hash)],
     ret |-> "Ok"]

on_prevote(rs, voter_id, round, block_hash) ==
    [rs |-> [rs EXCEPT !.prevotes = insert(@, voter_id, block_hash)], ret |-> "Ok"]

\* on_precommit that drops a vote tagged with an older round.
on_precommit_drops_stale(rs, voter_id, round, block_hash) ==
    IF round < rs.round THEN [rs |-> rs, ret |-> "Ok"]
    ELSE [rs |-> [rs EXCEPT !.precommits = insert(@, voter_id, block_hash)], ret |-> "Ok"]

on_precommit(rs, voter_id, round, block_hash) ==
    [rs |-> [rs EXCEPT !.precommits = insert(@, voter_id, block_hash)], ret |-> "Ok"]

\* on_commit that finalizes: the round moves to the Commit step and locks
\* the committed hash.
on_commit_finalizes(rs, block_hash, round) ==
    [rs |-> [rs EXCEPT !.step = "Commit", !.locked_block_hash = Some(block_hash)],
     ret |-> "Ok"]

on_commit(rs, block_hash, round) == [rs |-> rs, ret |-> "Ok"]

\* ----------------------------------------------------------- PeerManager
Peer_new(id, addr) == [id |-> id, listen_addr |-> addr]

PeerManager_new == EmptyMap

\* add_peer with entry().or_insert(): the first address of an id is kept.
add_peer_keeps_first(map, peer) ==
    IF peer.id \in DOMAIN map THEN map ELSE insert(map, peer.id, peer)

add_peer(map, peer) == insert(map, peer.id, peer)

\* map.values().cloned().collect(): one Peer per key, in no particular order.
get_all_peers(map) == {map[k] : k \in DOMAIN map}

\* ------------------------------------------------------------------ state
VARIABLES
    round_state,    \* ConsensusCore.round_state
    peers,          \* PeerManager.inner
    uuids,          \* number of uuids the round timer has generated
    lastOp,         \* history: the operation the last step performed
    lastVote,       \* history: <<kind, voter>> -> the hash of that voter's most
                    \* recent vote of that kind since the last start_new_round
    lastAdd         \* history: id -> the address of the most recent add of id

VARIABLES
    core_lock,      \* consensus_core: the task holding the Mutex, or "free"
    pc,             \* task -> the line the task is at
    frame,          \* connection task -> the message it has decoded
    local,          \* the round timer's locals new_block and new_round
    linear          \* history: the round state had every call run at once,
                    \* in the order the calls acquired the lock

VARIABLES
    bcast,          \* the broadcast_message call: its pc, the snapshot it took,
                    \* the peers it has yet to visit and what it returned
    tasks           \* the send tasks the call has spawned, in spawn order

VARIABLES
    peers_lock,     \* PeerManager.inner: the task holding the Mutex, or "free"
    started         \* history: the blocks the round timer has passed to
                    \* start_new_round, in order

VARIABLES
    wire            \* connection -> the handle_connection task serving it: the
                    \* frames it has decoded, those whose dispatch has not
                    \* returned, those applied, and how the handler ended;
                    \* history: earlier, the connections whose pending frame
                    \* was decoded before this connection's pending frame

nodeVars == <<round_state, peers, uuids, lastOp, lastVote, lastAdd>>
concVars == <<core_lock, pc, frame, local, linear>>
bcVars == <<bcast, tasks>>
lockVars == <<peers_lock, started>>
wireVars == <<wire>>
vars == <<nodeVars, concVars, bcVars, lockVars, wireVars>>

Tasks == {"conn1", "conn2", "timer"}
Conns == {"conn1", "conn2"}
NoFrame == [type |-> "none"]

\* No broadcast has been called: the state of bcVars outside SpecPeers.
BcIdle ==
    /\ bcast = [pc |-> "idle", snapshot |-> {}, remaining |-> {}, ret |-> None]
    /\ tasks = << >>

\* Nobody holds the registry and the timer has started no round: the state
\* of lockVars outside SpecConc.
LockIdle ==
    /\ peers_lock = "free"
    /\ started = << >>

\* A handle_connection task that has read nothing yet.
Handler_new ==
    [arrived |-> << >>, pending |-> << >>, applied |-> << >>, earlier |-> {},
     state |-> "open", cause |-> None, ret |-> None, logged |-> FALSE]

\* Every connection is freshly accepted: the state of wireVars outside SpecWire.
WireIdle == wire = [c \in Conns |-> Handler_new]

\* No task has started: the state of concVars outside SpecConc.
ConcIdle ==
    /\ core_lock = "free"
    /\ pc = [t \in Tasks |-> IF t = "timer" THEN "sleep" ELSE "read"]
    /\ frame = [t \in Conns |-> NoFrame]
    /\ local = [new_block |-> None, new_round |-> 0]
    /\ linear = RoundState_new

\* ------------------------------------------------------------ dispatcher
\* process_p2p_message: the effect of one dispatched message on the round
\* state and on the registry, and the Result it returns.  Each handle_*
\* locks the core, makes the one call and unlocks on return.
handle_proposal(rs, m) == on_proposal(rs, m.proposer_id, m.round, m.block)
handle_prevote(rs, m) == on_prevote(rs, m.voter_id, m.round, m.block_hash)
handle_precommit(rs, m) == on_precommit(rs, m.voter_id, m.round, m.block_hash)
handle_commit(rs, m) == on_commit(rs, m.block_hash, m.round)

process_p2p_message(rs, map, m) ==
    CASE m.type = "PeerInfo" ->
            [rs |-> rs, peers |-> add_peer(map, Peer_new(m.node_id, m.listen_addr)), ret |-> "Ok"]
      [] m.type = "Proposal" ->
            [rs |-> handle_proposal(rs, m).rs, peers |-> map, ret |-> handle_proposal(rs, m).ret]
      [] m.type = "Prevote" ->
            [rs |-> handle_prevote(rs, m).rs, peers |-> map, ret |-> handle_prevote(rs, m).ret]
      [] m.type = "Precommit" ->
            [rs |-> handle_precommit(rs, m).rs, peers |-> map, ret |-> handle_precommit(rs, m).ret]
      [] m.type = "Commit" ->
            [rs |-> handle_commit(rs, m).rs, peers |-> map, ret |-> handle_commit(rs, m).ret]

\* ---------------------------------------------------------------- history
\* The history of a vote: the voter's latest hash, whatever it held before.
Voted(kind, v, h) ==
    [k \in (DOMAIN lastVote) \cup {<<kind, v>>} |->
        IF k[1] = kind /\ k[2] = v THEN h ELSE lastVote[k]]

\* The history of an add_peer: the id's latest address.
Added(id, addr) ==
    [k \in (DOMAIN lastAdd) \cup {id} |-> IF k = id THEN addr ELSE lastAdd[k]]

\* ------------------------------------------------- the node (Spec)
\* ConsensusState::new: a fresh round state and an empty registry.
Init ==
    /\ round_state = RoundState_new
    /\ peers = PeerManager_new
    /\ uuids = 0
    /\ lastOp = [op |-> "init"]
    /\ lastVote = << >>
    /\ lastAdd = << >>
    /\ ConcIdle
    /\ BcIdle
    /\ LockIdle
    /\ WireIdle

\* One iteration of run_consensus_loop: after the sleep, a fresh block id,
\* then start_new_round under the core lock.
run_consensus_loop ==
    /\ round_state.round < MaxRound
    /\ uuids' = uuids + 1
    /\ round_state' = start_new_round(round_state, <<"block", uuids'>>)
    /\ lastOp' = [op |-> "start_new_round", block |-> <<"block", uuids'>>,
                  hadVotes |-> /\ round_state.prevotes # EmptyMap
                               /\ round_state.precommits # EmptyMap]
    /\ lastVote' = << >>
    /\ started' = Append(started, <<"block", uuids'>>)
    /\ UNCHANGED <<peers, lastAdd, concVars, bcVars, peers_lock, wireVars>>

\* The round numbers a frame may carry: below, at and above the current round.
RoundArgsAt(rs) == {r \in RoundArgs : r + 1 >= rs.round /\ r <= rs.round + 1}

\* A connection task decodes one frame and dispatches it.
handle_connection ==
    \E m \in P2PMessage :
        LET out == process_p2p_message(round_state, peers, m) IN
        /\ m.type # "PeerInfo" => m.round \in RoundArgsAt(round_state)
        /\ round_state' = out.rs
        /\ peers' = out.peers
        /\ lastOp' = [op |-> "dispatch", type |-> m.type,
                      round |-> IF m.type = "PeerInfo" THEN 0 ELSE m.round,
                      ret |-> out.ret]
        /\ lastVote' = CASE m.type = "Prevote" -> Voted("prevote", m.voter_id, m.block_hash)
                          [] m.type = "Precommit" -> Voted("precommit", m.voter_id, m.block_hash)
                          [] OTHER -> lastVote
        /\ lastAdd' = IF m.type = "PeerInfo" THEN Added(m.node_id, m.listen_addr) ELSE lastAdd
        /\ UNCHANGED <<uuids, concVars, bcVars, lockVars, wireVars>>

Next == run_consensus_loop \/ handle_connection

Spec == Init /\ [][Next]_vars

\* --------------------------------------- ConsensusCore alone (SpecCore)
\* ConsensusCore and RoundState have public fields: a caller may hold a
\* core in any round state, so the methods are exercised from every step
\* and with a set locked_block_hash, not only from the states the node
\* reaches.
InitCore ==
    /\ round_state \in [round : 0 .. 1, step : Steps,
                        proposal : {None, Some(<<"block", 101>>)},
                        locked_block_hash : {None, Some("h1")},
                        prevotes : {EmptyMap}, precommits : {EmptyMap}]
    /\ peers = PeerManager_new
    /\ uuids = 0
    /\ lastOp = [op |-> "init"]
    /\ lastVote = << >>
    /\ lastAdd = << >>
    /\ ConcIdle
    /\ BcIdle
    /\ LockIdle
    /\ WireIdle

call_start_new_round ==
    \E b \in PeerBlocks :
        /\ round_state.round < MaxRound
        /\ round_state' = start_new_round(round_state, b)
        /\ lastOp' = [op |-> "start_new_round", block |-> b,
                      consecutive |-> lastOp.op = "start_new_round",
                      preStep |-> round_state.step,
                      hadLock |-> round_state.locked_block_hash # None,
                      hadVotes |-> /\ round_state.prevotes # EmptyMap
                                   /\ round_state.precommits # EmptyMap]
        /\ lastVote' = << >>
        /\ UNCHANGED <<peers, uuids, lastAdd, concVars, bcVars, lockVars, wireVars>>

call_on_proposal ==
    \E p \in Proposers, r \in RoundArgsAt(round_state), b \in PeerBlocks :
        /\ round_state' = on_proposal(round_state, p, r, b).rs
        /\ lastOp' = [op |-> "on_proposal", proposer_id |-> p, round |-> r, block |-> b,
                      had |-> round_state.proposal,
                      ret |-> on_proposal(round_state, p, r, b).ret]
        /\ UNCHANGED <<peers, uuids, lastVote, lastAdd, concVars, bcVars, lockVars, wireVars>>

call_on_prevote ==
    \E v \in Voters, r \in RoundArgsAt(round_state), h \in Hashes :
        /\ round_state' = on_prevote(round_state, v, r, h).rs
        /\ lastOp' = [op |-> "on_prevote", voter_id |-> v, round |-> r, block_hash |-> h,
                      had |-> Get(round_state.prevotes, v),
                      ret |-> on_prevote(round_state, v, r, h).ret]
        /\ lastVote' = Voted("prevote", v, h)
        /\ UNCHANGED <<peers, uuids, lastAdd, concVars, bcVars, lockVars, wireVars>>

call_on_precommit ==
    \E v \in Voters, r \in RoundArgsAt(round_state), h \in Hashes :
        /\ round_state' = on_precommit(round_state, v, r, h).rs
        /\ lastOp' = [op |-> "on_precommit", voter_id |-> v, round |-> r, block_hash |-> h,
                      had |-> Get(round_state.precommits, v),
                      ret |-> on_precommit(round_state, v, r, h).ret]
        /\ lastVote' = Voted("precommit", v, h)
        /\ UNCHANGED <<peers, uuids, lastAdd, concVars, bcVars, lockVars, wireVars>>

call_on_commit ==
    \E h \in Hashes, r \in RoundArgsAt(round_state) :
        /\ round_state' = on_commit(round_state, h, r).rs
        /\ lastOp' = [op |-> "on_commit", block_hash |-> h, round |-> r,
                      ret |-> on_commit(round_state, h, r).ret]
        /\ UNCHANGED <<peers, uuids, lastVote, lastAdd, concVars, bcVars, lockVars, wireVars>>

NextCore ==
    \/ call_start_new_round
    \/ call_on_proposal
    \/ call_on_prevote
    \/ call_on_precommit
    \/ call_on_commit

SpecCore == InitCore /\ [][NextCore]_vars

\* ------------------------------- the lock around each call (SpecConc)
\* Two connection tasks and the round timer run concurrently.  Each
\* handle_* and each timer iteration locks consensus_core, runs the one
\* ConsensusCore method statement by statement, and unlocks when the guard
\* goes out of scope.  A pc value names the method and the line of
\* consensus/state.rs the task is about to execute.

\* The frames the connections deliver here.
ConcFrames ==
    {Proposal("p1", r, <<"block", 101>>) : r \in 0 .. 1}
    \cup {Prevote("v1", 0, h) : h \in Hashes}
    \cup {Precommit("v1", 0, "h1"), Commit("h1", 0)}

\* Mutex::lock without mutual exclusion: it returns at once.
lock_unguarded(l) == TRUE

\* Mutex::lock returns only when no task holds the guard.
lock(l) == l = "free"

\* The first statement of the method a frame is routed to.
Entry(m) ==
    CASE m.type = "Proposal" -> "on_proposal_79"
      [] m.type = "Prevote" -> "on_prevote_99"
      [] m.type = "Precommit" -> "on_precommit_108"
      [] m.type = "Commit" -> "on_commit_115"

Goto(t, l) == pc' = [pc EXCEPT ![t] = l]

InitConc ==
    /\ round_state = RoundState_new
    /\ peers = PeerManager_new
    /\ uuids = 0
    /\ lastOp = [op |-> "init"]
    /\ lastVote = << >>
    /\ lastAdd = << >>
    /\ ConcIdle
    /\ BcIdle
    /\ LockIdle
    /\ WireIdle

\* handle_connection: the next frame of the connection is decoded.
conn_read(t) ==
    /\ pc[t] = "read"
    /\ \E m \in ConcFrames : frame' = [frame EXCEPT ![t] = m]
    /\ Goto(t, "lock")
    /\ UNCHANGED <<nodeVars, core_lock, local, linear, bcVars, lockVars, wireVars>>

\* handle_*: let mut core = self.consensus_core.lock().unwrap();
conn_lock(t) ==
    /\ pc[t] = "lock"
    /\ lock(core_lock)
    /\ core_lock' = t
    /\ Goto(t, Entry(frame[t]))
    /\ linear' = process_p2p_message(linear, peers, frame[t]).rs
    /\ UNCHANGED <<nodeVars, frame, local, bcVars, lockVars, wireVars>>

\* if round < self.round_state.round { return Ok(()) }
on_proposal_79(t) ==
    /\ pc[t] = "on_proposal_79"
    /\ Goto(t, IF frame[t].round < round_state.round THEN "unlock" ELSE "on_proposal_84")
    /\ UNCHANGED <<nodeVars, core_lock, frame, local, linear, bcVars, lockVars, wireVars>>

\* if self.round_state.step != Step::Propose { return Ok(()) }
on_proposal_84(t) ==
    /\ pc[t] = "on_proposal_84"
    /\ Goto(t, IF round_state.step # "Propose" THEN "unlock" ELSE "on_proposal_89")
    /\ UNCHANGED <<nodeVars, core_lock, frame, local, linear, bcVars, lockVars, wireVars>>

\* self.round_state.proposal = Some(block)
on_proposal_89(t) ==
    /\ pc[t] = "on_proposal_89"
    /\ round_state' = [round_state EXCEPT !.proposal = Some(frame[t].block)]
    /\ Goto(t, "unlock")
    /\ UNCHANGED <<peers, uuids, lastOp, lastVote, lastAdd, core_lock, frame, local, linear, bcVars, lockVars, wireVars>>

\* self.round_state.prevotes.insert(voter_id, block_hash)
on_prevote_99(t) ==
    /\ pc[t] = "on_prevote_99"
    /\ round_state' = [round_state EXCEPT
                            !.prevotes = insert(@, frame[t].voter_id, frame[t].block_hash)]
    /\ Goto(t, "unlock")
    /\ UNCHANGED <<peers, uuids, lastOp, lastVote, lastAdd, core_lock, frame, local, linear, bcVars, lockVars, wireVars>>

\* self.round_state.precommits.insert(voter_id, block_hash)
on_precommit_108(t) ==
    /\ pc[t] = "on_precommit_108"
    /\ round_state' = [round_state EXCEPT
                            !.precommits = insert(@, frame[t].voter_id, frame[t].block_hash)]
    /\ Goto(t, "unlock")
    /\ UNCHANGED <<peers, uuids, lastOp, lastVote, lastAdd, core_lock, frame, local, linear, bcVars, lockVars, wireVars>>

\* on_commit logs the event and returns.
on_commit_115(t) ==
    /\ pc[t] = "on_commit_115"
    /\ Goto(t, "unlock")
    /\ UNCHANGED <<nodeVars, core_lock, frame, local, linear, bcVars, lockVars, wireVars>>

\* A guard that outlives the call: the connection reads on with the core
\* still locked.
conn_unlock_keeps_guard(t) ==
    /\ pc[t] = "unlock"
    /\ frame' = [frame EXCEPT ![t] = NoFrame]
    /\ Goto(t, "read")
    /\ UNCHANGED <<nodeVars, core_lock, local, linear, bcVars, lockVars, wireVars>>

\* handle_* returns: the guard is dropped, and the connection reads on.
conn_unlock(t) ==
    /\ pc[t] = "unlock"
    /\ core_lock' = "free"
    /\ frame' = [frame EXCEPT ![t] = NoFrame]
    /\ Goto(t, "read")
    /\ UNCHANGED <<nodeVars, local, linear, bcVars, lockVars, wireVars>>

\* A round timer that starts the next round only once the current one has
\* collected a prevote.
timer_wake_after_progress ==
    /\ pc["timer"] = "sleep"
    /\ uuids < MaxRound
    /\ round_state.round = 0 \/ round_state.prevotes # EmptyMap
    /\ uuids' = uuids + 1
    /\ local' = [local EXCEPT !.new_block = Some(<<"block", uuids'>>)]
    /\ Goto("timer", "lock")
    /\ UNCHANGED <<round_state, peers, lastOp, lastVote, lastAdd, core_lock, frame, linear, bcVars, lockVars, wireVars>>

\* run_consensus_loop: the sleep ends and a fresh block id is formatted.
timer_wake ==
    /\ pc["timer"] = "sleep"
    /\ uuids < MaxRound
    /\ uuids' = uuids + 1
    /\ local' = [local EXCEPT !.new_block = Some(<<"block", uuids'>>)]
    /\ Goto("timer", "lock")
    /\ UNCHANGED <<round_state, peers, lastOp, lastVote, lastAdd, core_lock, frame, linear, bcVars, lockVars, wireVars>>

\* let mut core = cs.consensus_core.lock().unwrap();
timer_lock ==
    /\ pc["timer"] = "lock"
    /\ lock(core_lock)
    /\ core_lock' = "timer"
    /\ Goto("timer", "start_new_round_54")
    /\ linear' = start_new_round(linear, local.new_block[1])
    /\ started' = Append(started, local.new_block[1])
    /\ UNCHANGED <<nodeVars, frame, local, bcVars, peers_lock, wireVars>>

\* let new_round = self.round_state.round + 1;
start_new_round_54 ==
    /\ pc["timer"] = "start_new_round_54"
    /\ local' = [local EXCEPT !.new_round = round_state.round + 1]
    /\ Goto("timer", "start_new_round_55")
    /\ UNCHANGED <<nodeVars, core_lock, frame, linear, bcVars, lockVars, wireVars>>

\* One field assignment of start_new_round, lines 55 to 60.
Assign(line, next, field, value) ==
    /\ pc["timer"] = line
    /\ round_state' = [round_state EXCEPT ![field] = value]
    /\ Goto("timer", next)
    /\ UNCHANGED <<peers, uuids, lastOp, lastVote, lastAdd, core_lock, frame, local, linear, bcVars, lockVars, wireVars>>

start_new_round_55 ==
    Assign("start_new_round_55", "start_new_round_56", "round", local.new_round)

start_new_round_56 ==
    Assign("start_new_round_56", "start_new_round_57", "step", "Propose")

start_new_round_57 ==
    Assign("start_new_round_57", "start_new_round_58", "proposal", local.new_block)

start_new_round_58 ==
    Assign("start_new_round_58", "start_new_round_59", "locked_block_hash", None)

start_new_round_59 ==
    Assign("start_new_round_59", "start_new_round_60", "prevotes", EmptyMap)

start_new_round_60 ==
    Assign("start_new_round_60", "unlock", "precommits", EmptyMap)

\* The loop body ends: the guard is dropped, and the timer sleeps again.
timer_unlock ==
    /\ pc["timer"] = "unlock"
    /\ core_lock' = "free"
    /\ local' = [new_block |-> None, new_round |-> 0]
    /\ Goto("timer", "sleep")
    /\ UNCHANGED <<nodeVars, frame, linear, bcVars, lockVars, wireVars>>

NextConc ==
    \/ \E t \in Conns : conn_read(t)
    \/ \E t \in Conns : conn_lock(t)
    \/ \E t \in Conns : on_proposal_79(t)
    \/ \E t \in Conns : on_proposal_84(t)
    \/ \E t \in Conns : on_proposal_89(t)
    \/ \E t \in Conns : on_prevote_99(t)
    \/ \E t \in Conns : on_precommit_108(t)
    \/ \E t \in Conns : on_commit_115(t)
    \/ \E t \in Conns : conn_unlock(t)
    \/ timer_wake
    \/ timer_lock
    \/ start_new_round_54
    \/ start_new_round_55
    \/ start_new_round_56
    \/ start_new_round_57
    \/ start_new_round_58
    \/ start_new_round_59
    \/ start_new_round_60
    \/ timer_unlock

SpecConc == InitConc /\ [][NextConc]_vars

\* The tasks inside a Round State Machine operation.
Inside == {t \in Tasks : pc[t] \notin {"read", "lock", "sleep"}}

\* The statements a connection task runs between lock and the end of the
\* handle_* call, and those of one timer iteration.
ConnBody(t) ==
    \/ on_proposal_79(t)
    \/ on_proposal_84(t)
    \/ on_proposal_89(t)
    \/ on_prevote_99(t)
    \/ on_precommit_108(t)
    \/ on_commit_115(t)
    \/ conn_unlock(t)

TimerBody ==
    \/ start_new_round_54
    \/ start_new_round_55
    \/ start_new_round_56
    \/ start_new_round_57
    \/ start_new_round_58
    \/ start_new_round_59
    \/ start_new_round_60
    \/ timer_unlock

\* The scheduling of the tasks: the sleep of the round timer ends; code
\* that holds the guard has no await and runs to the end of its call; the
\* round timer, scheduled fairly, gets the lock if it is free again and
\* again.  A peer may stay silent, and a connection task may lose every
\* race for the lock.
SpecConcFair ==
    /\ SpecConc
    /\ WF_vars(timer_wake)
    /\ SF_vars(timer_lock)
    /\ WF_vars(TimerBody)
    /\ \A t \in Conns : WF_vars(ConnBody(t))

\* ------------------------- the registry and broadcast_message (SpecPeers)
\* str::parse::<SocketAddr>: Ok for an "ip:port" literal, Err otherwise (a
\* host name is not resolved).
parse(addr) ==
    CASE addr = "10.0.0.1:7000" -> Some([ip |-> <<10, 0, 0, 1>>, port |-> 7000])
      [] addr = "10.0.0.1:7001" -> Some([ip |-> <<10, 0, 0, 1>>, port |-> 7001])
      [] OTHER -> None

\* tokio::spawn of one send task for `peer`, to the parsed address.
Spawn(ts, peer, a) ==
    Append(ts, [peer |-> peer.id, addr |-> a, state |-> "spawned", connects |-> 0])

\* The loop body that spawns nothing for a peer whose address already has a
\* send task: one send per address instead of one per peer.
broadcast_peer_once_per_addr(ts, peer) ==
    IF parse(peer.listen_addr) = None THEN ts
    ELSE IF \E i \in DOMAIN ts : ts[i].addr = parse(peer.listen_addr)[1] THEN ts
    ELSE Spawn(ts, peer, parse(peer.listen_addr)[1])

\* The loop body that looks the peer's address up in the registry again
\* when it spawns the send.
broadcast_peer_live(ts, peer) ==
    IF parse(peers[peer.id].listen_addr) = None THEN ts
    ELSE Spawn(ts, peer, parse(peers[peer.id].listen_addr)[1])

\* The body of the loop of broadcast_message for one peer of the snapshot:
\* a peer whose address does not parse is logged and skipped.
broadcast_peer(ts, peer) ==
    IF parse(peer.listen_addr) = None THEN ts
    ELSE Spawn(ts, peer, parse(peer.listen_addr)[1])

\* The end of a send task that tries again after an error.
send_task_end_retries(ts, i, result) ==
    [ts EXCEPT ![i].state = IF result = "Ok" THEN "sent" ELSE "spawned"]

\* The end of a send task: an Err of send_message is logged, and the task
\* is over either way.
send_task_end(ts, i, result) ==
    [ts EXCEPT ![i].state = IF result = "Ok" THEN "sent" ELSE "failed"]

Finished(ts) == \A i \in DOMAIN ts : ts[i].state \in {"sent", "failed"}

InitPeers ==
    /\ round_state = RoundState_new
    /\ peers = PeerManager_new
    /\ uuids = 0
    /\ lastOp = [op |-> "init"]
    /\ lastVote = << >>
    /\ lastAdd = << >>
    /\ ConcIdle
    /\ BcIdle
    /\ LockIdle
    /\ WireIdle

\* A direct call of PeerManager::add_peer.
call_add_peer ==
    \E id \in NodeIds, a \in AddrStrings :
        /\ peers' = add_peer(peers, Peer_new(id, a))
        /\ lastAdd' = Added(id, a)
        /\ lastOp' = [op |-> "add_peer", id |-> id, addr |-> a, had |-> Get(peers, id)]
        /\ UNCHANGED <<round_state, uuids, lastVote, concVars, bcVars, lockVars, wireVars>>

\* A PeerInfo message is dispatched.
dispatch_peer_info ==
    \E id \in NodeIds, a \in AddrStrings :
        LET out == process_p2p_message(round_state, peers, PeerInfo(id, a)) IN
        /\ peers' = out.peers
        /\ round_state' = out.rs
        /\ lastAdd' = Added(id, a)
        /\ lastOp' = [op |-> "dispatch", id |-> id, addr |-> a, had |-> Get(peers, id)]
        /\ UNCHANGED <<uuids, lastVote, concVars, bcVars, lockVars, wireVars>>

\* broadcast_message is called (once the send tasks of the previous call are
\* over): let peers = self.peer_manager.get_all_peers();
broadcast_call ==
    /\ bcast.pc \in {"idle", "returned"}
    /\ Finished(tasks)
    /\ bcast' = [pc |-> "loop", snapshot |-> get_all_peers(peers),
                 remaining |-> get_all_peers(peers), ret |-> None]
    /\ tasks' = << >>
    /\ lastOp' = [op |-> "broadcast_message"]
    /\ UNCHANGED <<round_state, peers, uuids, lastVote, lastAdd, concVars, lockVars, wireVars>>

\* for peer in peers { ... }: one iteration, in the order of the Vec.
broadcast_loop ==
    /\ bcast.pc = "loop"
    /\ \E p \in bcast.remaining :
            /\ tasks' = broadcast_peer(tasks, p)
            /\ bcast' = [bcast EXCEPT !.remaining = @ \ {p}]
    /\ lastOp' = [op |-> "broadcast_message"]
    /\ UNCHANGED <<round_state, peers, uuids, lastVote, lastAdd, concVars, lockVars, wireVars>>

\* The loop is over: broadcast_message returns ().
broadcast_return ==
    /\ bcast.pc = "loop"
    /\ bcast.remaining = {}
    /\ bcast' = [bcast EXCEPT !.pc = "returned", !.ret = Some("()")]
    /\ lastOp' = [op |-> "broadcast_message"]
    /\ UNCHANGED <<round_state, peers, uuids, lastVote, lastAdd, tasks, concVars, lockVars, wireVars>>

\* send_message: TcpStream::connect(addr).await? succeeds or fails.
send_connect ==
    \E i \in DOMAIN tasks, ok \in BOOLEAN :
        /\ tasks[i].state = "spawned"
        /\ tasks' = IF ok
                THEN [tasks EXCEPT ![i].state = "connected", ![i].connects = @ + 1]
                ELSE send_task_end([tasks EXCEPT ![i].connects = @ + 1], i, "Err")
        /\ lastOp' = [op |-> "send_message", task |-> i,
                      result |-> IF ok THEN "connected" ELSE "Err"]
        /\ UNCHANGED <<round_state, peers, uuids, lastVote, lastAdd, bcast, concVars, lockVars, wireVars>>

\* send_message: framed.send(..).await? succeeds or fails.
send_write ==
    \E i \in DOMAIN tasks, ok \in BOOLEAN :
        /\ tasks[i].state = "connected"
        /\ tasks' = send_task_end(tasks, i, IF ok THEN "Ok" ELSE "Err")
        /\ lastOp' = [op |-> "send_message", task |-> i,
                      result |-> IF ok THEN "Ok" ELSE "Err"]
        /\ UNCHANGED <<round_state, peers, uuids, lastVote, lastAdd, bcast, concVars, lockVars, wireVars>>

NextPeers ==
    \/ call_add_peer
    \/ dispatch_peer_info
    \/ broadcast_call
    \/ broadcast_loop
    \/ broadcast_return
    \/ send_connect
    \/ send_write

SpecPeers == InitPeers /\ [][NextPeers]_vars

\* The send tasks spawned for peer id.
TasksFor(id) == {i \in DOMAIN tasks : tasks[i].peer = id}

\* ------------------------------------------ the two locks (SpecLocks)
\* The tasks of SpecConc, with prevote and PeerInfo frames only, and a
\* caller of broadcast_message: add_peer and get_all_peers lock
\* PeerManager.inner, and a pc value names the line of p2p/peer.rs the
\* task is about to execute.
Callers == Tasks \cup {"bcast"}

\* handle_connection: the next frame is a prevote, routed to
\* handle_prevote.
conn_read_prevote(t) ==
    /\ pc[t] = "read"
    /\ frame' = [frame EXCEPT ![t] = Prevote("v1", 0, "h1")]
    /\ Goto(t, "lock")
    /\ UNCHANGED <<nodeVars, core_lock, local, linear, bcVars, lockVars, wireVars>>

\* process_p2p_message, the PeerInfo arm: the frame is decoded and
\* add_peer is entered.
conn_read_peer_info(t) ==
    /\ pc[t] = "read"
    /\ \E a \in {"10.0.0.1:7000", "localhost:7000"} :
            frame' = [frame EXCEPT ![t] = PeerInfo("A", a)]
    /\ Goto(t, "add_peer_49")
    /\ UNCHANGED <<nodeVars, core_lock, local, linear, bcVars, lockVars, wireVars>>

\* A PeerInfo arm that locks the core as the other arms do, before it
\* locks the registry.
add_peer_49_holding_core(t) ==
    /\ pc[t] = "add_peer_49"
    /\ lock(core_lock)
    /\ lock(peers_lock)
    /\ core_lock' = t
    /\ peers_lock' = t
    /\ Goto(t, "add_peer_50")
    /\ UNCHANGED <<nodeVars, frame, local, linear, bcVars, started, wireVars>>

\* let mut map = self.inner.lock().unwrap();
add_peer_49(t) ==
    /\ pc[t] = "add_peer_49"
    /\ lock(peers_lock)
    /\ peers_lock' = t
    /\ Goto(t, "add_peer_50")
    /\ UNCHANGED <<nodeVars, core_lock, frame, local, linear, bcVars, started, wireVars>>

\* map.insert(peer.id.clone(), peer);
add_peer_50(t) ==
    /\ pc[t] = "add_peer_50"
    /\ peers' = add_peer(peers, Peer_new(frame[t].node_id, frame[t].listen_addr))
    /\ Goto(t, "add_peer_51")
    /\ UNCHANGED <<round_state, uuids, lastOp, lastVote, lastAdd, core_lock, frame, local,
                   linear, bcVars, lockVars, wireVars>>

\* add_peer returns: the guard is dropped, and the connection reads on.
add_peer_51(t) ==
    /\ pc[t] = "add_peer_51"
    /\ peers_lock' = "free"
    /\ frame' = [frame EXCEPT ![t] = NoFrame]
    /\ Goto(t, "read")
    /\ UNCHANGED <<nodeVars, core_lock, local, linear, bcVars, started, wireVars>>

\* broadcast_message is called and enters get_all_peers:
\* let map = self.inner.lock().unwrap();
get_all_peers_57 ==
    /\ bcast.pc \in {"idle", "returned"}
    /\ Finished(tasks)
    /\ lock(peers_lock)
    /\ peers_lock' = "bcast"
    /\ bcast' = [pc |-> "get_all_peers_58", snapshot |-> {}, remaining |-> {}, ret |-> None]
    /\ tasks' = << >>
    /\ lastOp' = [op |-> "broadcast_message"]
    /\ UNCHANGED <<round_state, peers, uuids, lastVote, lastAdd, concVars, started, wireVars>>

\* map.values().cloned().collect()
get_all_peers_58 ==
    /\ bcast.pc = "get_all_peers_58"
    /\ bcast' = [bcast EXCEPT !.pc = "get_all_peers_59", !.snapshot = get_all_peers(peers)]
    /\ UNCHANGED <<nodeVars, concVars, tasks, lockVars, wireVars>>

\* get_all_peers returns the Vec: the guard is dropped, and the loop of
\* broadcast_message begins.
get_all_peers_59 ==
    /\ bcast.pc = "get_all_peers_59"
    /\ peers_lock' = "free"
    /\ bcast' = [bcast EXCEPT !.pc = "loop", !.remaining = bcast.snapshot]
    /\ UNCHANGED <<nodeVars, concVars, tasks, started, wireVars>>

\* The steps a caller takes while it holds a guard.
HolderStep(t) ==
    IF t \in Conns
    THEN on_prevote_99(t) \/ conn_unlock(t) \/ add_peer_50(t) \/ add_peer_51(t)
    ELSE IF t = "timer" THEN TimerBody
    ELSE get_all_peers_58 \/ get_all_peers_59

NextLocks ==
    \/ \E t \in Conns : conn_read_prevote(t)
    \/ \E t \in Conns : conn_lock(t)
    \/ \E t \in Conns : on_prevote_99(t)
    \/ \E t \in Conns : conn_unlock(t)
    \/ timer_wake
    \/ timer_lock
    \/ TimerBody
    \/ \E t \in Conns : conn_read_peer_info(t)
    \/ \E t \in Conns : add_peer_49(t)
    \/ \E t \in Conns : add_peer_50(t)
    \/ \E t \in Conns : add_peer_51(t)
    \/ get_all_peers_57
    \/ get_all_peers_58
    \/ get_all_peers_59
    \/ broadcast_loop
    \/ broadcast_return
    \/ send_connect
    \/ send_write

SpecLocks == InitConc /\ [][NextLocks]_vars

\* ------------------------------------- one task per connection (SpecWire)
\* accept_loop spawns one handle_connection task per socket.  The task
\* reads length-delimited frames; each frame is decoded and dispatched,
\* and the next frame is read only after the dispatch has returned.
WireFrames ==
    {Prevote("v1", 0, "h1"), Prevote("v1", 0, "h2"), PeerInfo("A", "10.0.0.1:7000")}

\* What the peer's byte stream holds next: a frame whose body is the JSON
\* of a message, a frame whose body is not UTF-8, a frame whose body is no
\* message variant, a frame cut short by the end of the stream, a
\* connection reset, or a clean end of stream.
WireItems ==
    {[kind |-> "frame", msg |-> m] : m \in WireFrames}
        \cup {[kind |-> k, msg |-> NoFrame] :
                k \in {"bad_utf8", "bad_json", "truncated", "reset", "closed"}}

\* framed.next().await: a complete frame is Some(Ok(bytes)); the codec
\* reports bytes remaining at the end of the stream, and the socket a
\* failed read, as Some(Err(e)); a clean end of stream is None.
framed_next(item) ==
    CASE item.kind \in {"frame", "bad_utf8", "bad_json"} -> "Some(Ok)"
      [] item.kind \in {"truncated", "reset"} -> "Some(Err)"
      [] item.kind = "closed" -> "None"

from_utf8(item) == IF item.kind = "bad_utf8" THEN "Err" ELSE "Ok"
from_str(item) == IF item.kind = "bad_json" THEN "Err" ELSE "Ok"

\* The spawned task: handle_connection has returned ret; the task logs the
\* warning when ret is an Err, and ends.
task_end(h, cause, ret) ==
    [h EXCEPT !.state = "returned", !.cause = Some(cause), !.ret = Some(ret),
              !.logged = (ret = "Err")]

\* A decode failure that panics: the process aborts and every connection
\* task ends with it.
propagate_err_aborts(w, c, cause) ==
    [d \in DOMAIN w |-> IF w[d].state = "open" THEN task_end(w[d], cause, "Err") ELSE w[d]]

\* The ? operator: the handler of connection c returns the Err.
propagate_err(w, c, cause) == [w EXCEPT ![c] = task_end(@, cause, "Err")]

\* The while-let pattern did not match: the loop ends and the handler of
\* connection c returns Ok(()).
loop_exit(w, c, cause) == [w EXCEPT ![c] = task_end(@, cause, "Ok")]

\* The handler reads on without waiting for a dispatch it has spawned.
can_read_spawned(h) == TRUE

\* process_p2p_message is awaited inside the loop body: the handler is
\* back at framed.next() only when no dispatch of its own is outstanding.
can_read(h) == h.pending = << >>

Remove(seq, i) == [j \in 1 .. (Len(seq) - 1) |-> IF j < i THEN seq[j] ELSE seq[j + 1]]

InitWire ==
    /\ round_state = RoundState_new
    /\ peers = PeerManager_new
    /\ uuids = 0
    /\ lastOp = [op |-> "init"]
    /\ lastVote = << >>
    /\ lastAdd = << >>
    /\ ConcIdle
    /\ BcIdle
    /\ LockIdle
    /\ WireIdle

\* Lines 73-75: the next item of the stream, and the decoding of a frame.
handle_connection_73(c) ==
    \E item \in WireItems :
        /\ wire[c].state = "open"
        /\ can_read(wire[c])
        /\ item.kind = "frame" => Len(wire[c].arrived) < MaxFrames
        /\ wire' = CASE framed_next(item) # "Some(Ok)" -> loop_exit(wire, c, item.kind)
                     [] from_utf8(item) = "Err" -> propagate_err(wire, c, item.kind)
                     [] from_str(item) = "Err" -> propagate_err(wire, c, item.kind)
                     [] OTHER ->
                        [wire EXCEPT ![c].arrived = Append(@, item.msg),
                                     ![c].pending = Append(@, item.msg),
                                     ![c].earlier = {d \in Conns \ {c} : wire[d].pending # << >>}]
        /\ lastOp' = [op |-> "next", conn |-> c]
        /\ UNCHANGED <<round_state, peers, uuids, lastVote, lastAdd,
                       concVars, bcVars, lockVars>>

\* Line 78: the dispatch of a decoded frame returns.
handle_connection_78(c) ==
    \E i \in DOMAIN wire[c].pending :
        LET m == wire[c].pending[i]
            out == process_p2p_message(round_state, peers, m) IN
        /\ wire[c].state = "open"
        /\ round_state' = out.rs
        /\ peers' = out.peers
        /\ wire' = IF out.ret # "Ok" THEN propagate_err(wire, c, "dispatch")
                   ELSE [d \in Conns |->
                            IF d = c
                            THEN [wire[c] EXCEPT !.pending = Remove(@, i),
                                                 !.applied = Append(@, m),
                                                 !.earlier = {}]
                            ELSE [wire[d] EXCEPT !.earlier = @ \ {c}]]
        /\ lastOp' = [op |-> "process_p2p_message", conn |-> c,
                      overtook |-> wire[c].earlier # {}]
        /\ lastVote' = IF m.type = "Prevote"
                       THEN Voted("prevote", m.voter_id, m.block_hash) ELSE lastVote
        /\ lastAdd' = IF m.type = "PeerInfo" THEN Added(m.node_id, m.listen_addr) ELSE lastAdd
        /\ UNCHANGED <<uuids, concVars, bcVars, lockVars>>

NextWire ==
    \/ \E c \in Conns : handle_connection_73(c)
    \/ \E c \in Conns : handle_connection_78(c)

SpecWire == InitWire /\ [][NextWire]_vars

\* ================================================================ claims

\* C1: in every reachable state of the node, under any interleaving of
\* timer-driven start_new_round calls and dispatched messages of the five
\* kinds, step is Propose.
C1_StepAlwaysPropose == round_state.step = "Propose"

\* A round has been started, a proposal of a peer accepted, votes of both
\* kinds recorded, a peer registered, and a Commit was just dispatched.
C1_Witness ==
    /\ round_state.round >= 1
    /\ round_state.proposal \in {Some(b) : b \in PeerBlocks}
    /\ round_state.prevotes # EmptyMap
    /\ round_state.precommits # EmptyMap
    /\ peers # EmptyMap
    /\ lastOp.op = "dispatch" /\ lastOp.type = "Commit"

\* C2: each start_new_round call increases round by exactly 1 and leaves
\* step at Propose, from every round state.
C2_RoundPlusOne ==
    [][lastOp'.op = "start_new_round" =>
            /\ round_state'.round = round_state.round + 1
            /\ round_state'.step = "Propose"]_vars

\* The second of two consecutive calls.
C2_Witness ==
    /\ lastOp.op = "start_new_round"
    /\ lastOp.consecutive
    /\ round_state.round >= 2

\* C3: on_proposal with round < current round, or while step # Propose,
\* leaves the stored proposal unchanged and returns Ok, for every proposer
\* id and block.
C3_ProposalIgnored ==
    [][(/\ lastOp'.op = "on_proposal"
        /\ \/ lastOp'.round < round_state.round
           \/ round_state.step # "Propose")
        => /\ round_state'.proposal = round_state.proposal
           /\ lastOp'.ret = "Ok"]_vars

\* A proposal of an older round, carrying a block other than the stored
\* one, was just handled in the Propose step.
C3_Witness ==
    /\ lastOp.op = "on_proposal"
    /\ lastOp.round < round_state.round
    /\ round_state.step = "Propose"
    /\ round_state.proposal # Some(lastOp.block)

\* C4: each vote map holds exactly one entry per voter that voted since the
\* map was last cleared, and its value is the hash of that voter's most
\* recent vote.
C4_OneEntryPerVoter ==
    /\ DOMAIN round_state.prevotes = {v \in Voters : <<"prevote", v>> \in DOMAIN lastVote}
    /\ DOMAIN round_state.precommits = {v \in Voters : <<"precommit", v>> \in DOMAIN lastVote}
    /\ \A v \in DOMAIN round_state.prevotes :
            round_state.prevotes[v] = lastVote[<<"prevote", v>>]
    /\ \A v \in DOMAIN round_state.precommits :
            round_state.precommits[v] = lastVote[<<"precommit", v>>]

\* A voter that had already prevoted h1 just prevoted h2, while another
\* voter's entry is present.
C4_Witness ==
    /\ lastOp.op = "on_prevote"
    /\ lastOp.had = Some("h1")
    /\ lastOp.block_hash = "h2"
    /\ Cardinality(DOMAIN lastVote) >= 2

\* C5: right after start_new_round(block), whatever the prior state, both
\* vote maps are empty, locked_block_hash is None and proposal is the block
\* passed in.
C5_RoundStartClears ==
    lastOp.op = "start_new_round" =>
        /\ round_state.prevotes = EmptyMap
        /\ round_state.precommits = EmptyMap
        /\ round_state.locked_block_hash = None
        /\ round_state.proposal = Some(lastOp.block)

\* The call was made with votes of both kinds recorded, a locked block and
\* a step other than Propose.
C5_Witness ==
    /\ lastOp.op = "start_new_round"
    /\ lastOp.hadVotes
    /\ lastOp.hadLock
    /\ lastOp.preStep = "Commit"

\* C6: round never decreases, and it changes only in a timer-driven
\* start_new_round step: the dispatch of a message of any kind leaves it
\* unchanged.
C6_RoundOnlyByTimer ==
    [][/\ round_state'.round >= round_state.round
       /\ lastOp'.op = "dispatch" => round_state'.round = round_state.round]_vars

\* A Proposal of a round above the current one was just dispatched.
C6_Witness ==
    /\ lastOp.op = "dispatch"
    /\ lastOp.type = "Proposal"
    /\ lastOp.round > round_state.round
    /\ round_state.round >= 1

\* C7: with several connection tasks and the round timer running
\* concurrently, at most one task is inside a Round State Machine operation
\* at any time, and whenever no operation is in progress the round state is
\* the result of applying the operations so far one at a time, in the order
\* in which they took the lock.
C7_Serialized ==
    /\ Cardinality(Inside) <= 1
    /\ \A t \in Inside : core_lock = t
    /\ Inside = {} => round_state = linear

\* The timer is half way through start_new_round while both connections
\* wait for the lock with a decoded frame each.
C7_Witness ==
    /\ pc["timer"] = "start_new_round_57"
    /\ pc["conn1"] = "lock" /\ frame["conn1"].type = "Proposal"
    /\ pc["conn2"] = "lock" /\ frame["conn2"].type = "Prevote"
    /\ round_state.round >= 2
    /\ round_state # linear

\* C8: after any sequence of add_peer calls, direct or by a dispatched
\* PeerInfo, get_all_peers returns exactly one entry for every id ever added
\* and no other entry, each with the address of the most recent add of its
\* id; no step removes an id.
C8_RegistryLastWriteWins ==
    /\ {p.id : p \in get_all_peers(peers)} = DOMAIN lastAdd
    /\ \A id \in DOMAIN lastAdd :
            {p \in get_all_peers(peers) : p.id = id} = {Peer_new(id, lastAdd[id])}

\* Id A was just added again, by a PeerInfo, with an address other than the
\* one it had, while B is registered too.
C8_Witness ==
    /\ lastOp.op = "dispatch"
    /\ lastOp.id = "A"
    /\ lastOp.had = Some(Peer_new("A", "10.0.0.1:7000"))
    /\ lastOp.addr = "10.0.0.1:7001"
    /\ "B" \in DOMAIN peers

\* C9 as claimed: a broadcast_message call made while N peers are registered
\* has issued, when it returns, exactly N send attempts, one for each peer
\* of the registry, whatever its address string.
C9_OneSendPerPeer ==
    bcast.pc = "returned" =>
        /\ Len(tasks) = Cardinality(bcast.snapshot)
        /\ \A p \in bcast.snapshot : Cardinality(TasksFor(p.id)) = 1

\* C9 as amended: when the call returns it has issued exactly one send
\* attempt, to the parsed address, for each peer of the snapshot whose
\* address string parses as a socket address, and none for any other peer,
\* so as many attempts as peers with a parseable address.
C9_OneSendPerParseablePeer ==
    bcast.pc = "returned" =>
        /\ \A p \in bcast.snapshot :
                IF parse(p.listen_addr) = None
                THEN TasksFor(p.id) = {}
                ELSE /\ Cardinality(TasksFor(p.id)) = 1
                     /\ \A i \in TasksFor(p.id) : tasks[i].addr = parse(p.listen_addr)[1]
        /\ Len(tasks) = Cardinality({p \in bcast.snapshot : parse(p.listen_addr) # None})

\* The call returned with two peers in its snapshot, one with a parseable
\* address and one without: one send was issued, to the former.
C9_Witness ==
    /\ bcast.pc = "returned"
    /\ bcast.snapshot = {Peer_new("A", "10.0.0.1:7000"), Peer_new("B", "localhost:7000")}
    /\ Len(tasks) = 1
    /\ tasks[1].peer = "A"

\* C10: a failed send (connect or write error) is not tried again, changes
\* neither the other send tasks nor the broadcast call, and
\* broadcast_message returns () whatever the outcomes of the sends.
C10_FailuresStayLocal ==
    /\ [](/\ \A i \in DOMAIN tasks : tasks[i].connects <= 1
          /\ bcast.pc = "returned" => bcast.ret = Some("()"))
    /\ [][\A i \in DOMAIN tasks :
            (/\ lastOp'.op = "send_message"
             /\ lastOp'.task = i
             /\ lastOp'.result = "Err")
            => /\ tasks'[i].state = "failed"
               /\ bcast' = bcast
               /\ DOMAIN tasks' = DOMAIN tasks
               /\ \A j \in DOMAIN tasks \ {i} : tasks'[j] = tasks[j]]_vars

\* The call has returned; the first send failed to connect, and after that
\* the second one was connected and has just been written.
C10_Witness ==
    /\ bcast.pc = "returned"
    /\ Len(tasks) = 2
    /\ tasks[1].state = "failed" /\ tasks[1].connects = 1
    /\ tasks[2].state = "sent"
    /\ lastOp.op = "send_message" /\ lastOp.task = 2 /\ lastOp.result = "Ok"

\* C15: on_proposal with round >= current round while step = Propose sets
\* proposal to the block, for every proposer id and for every such round
\* (a later round included), whatever block was stored before; it leaves
\* round, step, locked_block_hash and both vote maps unchanged.
C15_ProposalReplaced ==
    [][(/\ lastOp'.op = "on_proposal"
        /\ lastOp'.round >= round_state.round
        /\ round_state.step = "Propose")
        => /\ round_state'.proposal = Some(lastOp'.block)
           /\ round_state' = [round_state EXCEPT !.proposal = Some(lastOp'.block)]
           /\ lastOp'.ret = "Ok"]_vars

\* A proposal of a later round, from a proposer other than p1, has just
\* replaced a different block stored since an earlier start_new_round,
\* while votes were present.
C15_Witness ==
    /\ lastOp.op = "on_proposal"
    /\ lastOp.proposer_id = "p2"
    /\ lastOp.round > round_state.round
    /\ round_state.round = MaxRound
    /\ round_state.step = "Propose"
    /\ lastOp.had # None
    /\ lastOp.had # Some(lastOp.block)
    /\ round_state.proposal = Some(lastOp.block)
    /\ round_state.prevotes # EmptyMap

\* C16: on_prevote and on_precommit record the vote into the current map
\* for every value of the round argument, below, at or above the current
\* round, and change nothing else: round, step, proposal,
\* locked_block_hash and the other vote map stay as they were.
C16_VoteRecordedAnyRound ==
    [][/\ lastOp'.op = "on_prevote"
            => /\ Get(round_state'.prevotes, lastOp'.voter_id) = Some(lastOp'.block_hash)
               /\ round_state' = [round_state EXCEPT !.prevotes =
                        insert(round_state.prevotes, lastOp'.voter_id, lastOp'.block_hash)]
               /\ lastOp'.ret = "Ok"
       /\ lastOp'.op = "on_precommit"
            => /\ Get(round_state'.precommits, lastOp'.voter_id) = Some(lastOp'.block_hash)
               /\ round_state' = [round_state EXCEPT !.precommits =
                        insert(round_state.precommits, lastOp'.voter_id, lastOp'.block_hash)]
               /\ lastOp'.ret = "Ok"]_vars

\* A precommit tagged with a round older than the current one was just
\* recorded, in a round that started after the core was created (its maps
\* were cleared by that start_new_round), next to a prevote.
C16_Witness ==
    /\ lastOp.op = "on_precommit"
    /\ lastOp.round < round_state.round
    /\ round_state.round = MaxRound
    /\ lastOp.had = None
    /\ Get(round_state.precommits, lastOp.voter_id) = Some(lastOp.block_hash)
    /\ round_state.prevotes # EmptyMap

\* C17: the dispatch of a Commit message, and so on_commit, leaves the
\* whole round state and the peer registry unchanged, for every hash and
\* round it carries and in every reachable state of the node.
C17_CommitChangesNothing ==
    [][(lastOp'.op = "dispatch" /\ lastOp'.type = "Commit")
        => /\ round_state' = round_state
           /\ peers' = peers
           /\ lastOp'.ret = "Ok"]_vars

\* A Commit tagged with a later round was just dispatched in a round with
\* a proposal, a prevote, a precommit and a registered peer.
C17_Witness ==
    /\ lastOp.op = "dispatch"
    /\ lastOp.type = "Commit"
    /\ lastOp.round > round_state.round
    /\ round_state.round >= 1
    /\ round_state.proposal # None
    /\ round_state.prevotes # EmptyMap
    /\ round_state.precommits # EmptyMap
    /\ peers # EmptyMap

\* C11: when a connection delivers a frame that fails to decode (cut
\* short, not UTF-8, or no message variant), the step that ends its task
\* changes neither the round state nor the registry nor the frames the
\* connection had applied nor any other connection; a task that has ended
\* processes nothing more; and a connection task that is still open can
\* always take its next step, whatever the other connections have done.
C11_DecodeFailureStaysLocal ==
    [][\A c \in Conns :
        /\ (/\ wire[c].state = "open"
            /\ wire'[c].cause \in {Some("truncated"), Some("bad_utf8"), Some("bad_json")})
            => /\ wire'[c].state = "returned"
               /\ round_state' = round_state
               /\ peers' = peers
               /\ wire'[c].applied = wire[c].applied
               /\ \A d \in Conns \ {c} : wire'[d] = wire[d]
        /\ wire[c].state = "returned" => wire'[c] = wire[c]
        /\ wire[c].state = "open"
            => ENABLED (handle_connection_73(c) \/ handle_connection_78(c))]_vars

\* The first connection registered a peer and then delivered a frame cut
\* short; after its task had ended the second connection had a prevote
\* applied, and the peer is still registered.
C11_Witness ==
    /\ wire["conn1"].state = "returned"
    /\ wire["conn1"].cause = Some("truncated")
    /\ wire["conn1"].applied = <<PeerInfo("A", "10.0.0.1:7000")>>
    /\ "A" \in DOMAIN peers
    /\ wire["conn2"].applied # << >>
    /\ lastOp = [op |-> "process_p2p_message", conn |-> "conn2", overtook |-> FALSE]
    /\ round_state.prevotes # EmptyMap

\* C12: within one connection frames are dispatched in arrival order, and
\* a frame is dispatched only after the dispatch of the one before it has
\* returned: the frames applied, followed by the at most one frame whose
\* dispatch is outstanding, are the frames decoded so far, in order.
C12_PerConnectionOrder ==
    \A c \in Conns :
        /\ Len(wire[c].pending) <= 1
        /\ wire[c].applied \o wire[c].pending = wire[c].arrived

\* No order across connections: the second connection's frame, decoded
\* while a frame of the first was waiting for its dispatch, was applied
\* before it; both connections delivered two different prevotes of v1.
C12_Witness ==
    /\ lastOp = [op |-> "process_p2p_message", conn |-> "conn2", overtook |-> TRUE]
    /\ wire["conn1"].arrived = <<Prevote("v1", 0, "h1"), Prevote("v1", 0, "h2")>>
    /\ wire["conn1"].pending = <<Prevote("v1", 0, "h2")>>
    /\ wire["conn2"].applied = <<Prevote("v1", 0, "h2"), Prevote("v1", 0, "h1")>>
    /\ round_state.prevotes["v1"] = "h1"

\* C20: every read failure and every decode failure on a connection ends
\* the handler with an Err that the owning task logs, and the handler
\* returns Ok only when the peer closed the connection cleanly.
C20_FailuresAreLoggedErrors ==
    \A c \in Conns :
        wire[c].state = "returned"
            => /\ wire[c].ret = Some("Ok") <=> wire[c].cause = Some("closed")
               /\ wire[c].cause # Some("closed")
                    => wire[c].ret = Some("Err") /\ wire[c].logged

\* C13: no caller holds the registry lock and the core lock at the same
\* time, a caller that holds one of them is not waiting for the other,
\* and it can always take its next step: whoever waits for a lock waits
\* for a holder that will release it without needing the other lock.
C13_LocksNeverNested ==
    \A t \in Callers :
        /\ ~(core_lock = t /\ peers_lock = t)
        /\ core_lock = t => pc[t] \notin {"read", "sleep", "lock", "add_peer_49"}
        /\ (peers_lock = t /\ t \in Conns) => pc[t] \in {"add_peer_50", "add_peer_51"}
        /\ (peers_lock = t /\ t = "bcast")
                => bcast.pc \in {"get_all_peers_58", "get_all_peers_59"}
        /\ (core_lock = t \/ peers_lock = t) => ENABLED HolderStep(t)

\* Both locks are held, by different callers, and the other two callers
\* wait: the timer is inside start_new_round, the broadcast is cloning
\* the registry, one connection waits for the core and the other for the
\* registry.
C13_Witness ==
    /\ core_lock = "timer"
    /\ peers_lock = "bcast"
    /\ pc["conn1"] = "lock"
    /\ pc["conn2"] = "add_peer_49"
    /\ peers # EmptyMap

\* C14: with the round timer scheduled fairly, every round below the
\* bound is followed by a later one, whatever frames arrive and whether
\* or not the round received a proposal or a vote, and the blocks of the
\* rounds the timer started are pairwise different.
C14_RoundsKeepStarting ==
    /\ \A n \in 0 .. (MaxRound - 1) : (round_state.round = n) ~> (round_state.round > n)
    /\ [](\A i, j \in DOMAIN started : i # j => started[i] # started[j])

\* The timer has started every round up to the last, each with a block of
\* its own, the block of the last one is the stored proposal, and every
\* task is back at rest.
C14_Witness ==
    /\ round_state.round = MaxRound
    /\ Len(started) = MaxRound
    /\ Cardinality({started[i] : i \in DOMAIN started}) = MaxRound
    /\ round_state.proposal = Some(started[MaxRound])
    /\ linear = round_state
    /\ pc = [t \in Tasks |-> IF t = "timer" THEN "sleep" ELSE "read"]
    /\ frame = [t \in Conns |-> NoFrame]

\* C18: the core lock is held only from the lock to the end of one call:
\* a connection task holds it for the one frame it has decoded and does
\* not hold it when it is back at the socket read, the timer does not
\* hold it while it sleeps, and the broadcast and its send tasks never
\* hold it; so whatever a connection stalled in its read does, the holder
\* of the lock can always run on to its release.
C18_LockNeverAcrossIO ==
    /\ [](/\ core_lock \in Tasks \cup {"free"}
          /\ \A t \in Tasks : pc[t] \in {"read", "sleep"} => core_lock # t
          /\ \A t \in Conns : core_lock = t => frame[t] # NoFrame
          /\ core_lock # "free" => ENABLED HolderStep(core_lock))
    /\ [][\A t \in Conns : (core_lock = t /\ core_lock' = t) => frame'[t] = frame[t]]_vars

\* The first connection sits in its socket read; meanwhile the timer
\* holds the lock inside start_new_round, the second connection waits
\* for it with a decoded prevote, an earlier prevote has been applied,
\* and a send task of a broadcast is waiting for its connect.
C18_Witness ==
    /\ pc["conn1"] = "read"
    /\ pc["conn2"] = "lock"
    /\ core_lock = "timer"
    /\ pc["timer"] = "start_new_round_57"
    /\ round_state.prevotes # EmptyMap
    /\ \E i \in DOMAIN tasks : tasks[i].state = "spawned"

\* C19: broadcast_message sends to the registry as get_all_peers copied
\* it: every send task of the call is for a peer of the snapshot and goes
\* to the address parsed from the snapshot's string, whatever was
\* registered or re-registered since; no peer has more than one send
\* task; and when the call returns every peer of the snapshot whose
\* snapshot address parses has its send task.
C19_SendsFollowSnapshot ==
    /\ \A i \in DOMAIN tasks :
            \E p \in bcast.snapshot :
                /\ p.id = tasks[i].peer
                /\ parse(p.listen_addr) = Some(tasks[i].addr)
    /\ \A id \in NodeIds : Cardinality(TasksFor(id)) <= 1
    /\ bcast.pc = "returned"
            => \A p \in bcast.snapshot :
                    parse(p.listen_addr) # None => TasksFor(p.id) # {}

\* The call returned with only A in its snapshot.  Since the snapshot, B
\* was registered and A was re-registered at another address: there is
\* one send task, for A, to the address of the snapshot.
C19_Witness ==
    /\ bcast.pc = "returned"
    /\ bcast.snapshot = {Peer_new("A", "10.0.0.1:7000")}
    /\ "B" \in DOMAIN peers
    /\ parse(peers["B"].listen_addr) # None
    /\ peers["A"].listen_addr = "10.0.0.1:7001"
    /\ Len(tasks) = 1
    /\ tasks[1].peer = "A"
    /\ tasks[1].addr = [ip |-> <<10, 0, 0, 1>>, port |-> 7000]

\* C21: the dispatch of a message of any of the five kinds, with any
\* field values and in any reachable state of the node, returns Ok: no
\* decoded message makes process_p2p_message return the Err that would
\* end the connection task.
C21_DispatchAlwaysOk == lastOp.op = "dispatch" => lastOp.ret = "Ok"

\* A Proposal of an older round, which on_proposal ignores, was just
\* dispatched after votes and a peer had been recorded.
C21_Witness ==
    /\ lastOp.op = "dispatch"
    /\ lastOp.type = "Proposal"
    /\ lastOp.round < round_state.round
    /\ lastOp.ret = "Ok"
    /\ round_state.prevotes # EmptyMap
    /\ peers # EmptyMap

\* C22: every entry of prevotes and of precommits is a vote dispatched
\* since the most recent start_new_round, and the step that starts a
\* round leaves both maps empty, whatever votes the round before held.
C22_VotesAreOfThisRound ==
    /\ [](/\ \A v \in DOMAIN round_state.prevotes :
                /\ <<"prevote", v>> \in DOMAIN lastVote
                /\ lastVote[<<"prevote", v>>] = round_state.prevotes[v]
          /\ \A v \in DOMAIN round_state.precommits :
                /\ <<"precommit", v>> \in DOMAIN lastVote
                /\ lastVote[<<"precommit", v>>] = round_state.precommits[v])
    /\ [][lastOp'.op = "start_new_round"
            => /\ round_state'.prevotes = EmptyMap
               /\ round_state'.precommits = EmptyMap]_vars

\* The timer has just started the last round while the round before held
\* prevotes and precommits: both maps are empty.
C22_Witness ==
    /\ lastOp.op = "start_new_round"
    /\ lastOp.hadVotes
    /\ round_state.round = MaxRound
    /\ round_state.prevotes = EmptyMap
    /\ round_state.precommits = EmptyMap

\* C23: the proposal, once set, is never reset to none; from round 1 on a
\* proposal is present; and none is present only in round 0, where it
\* stays absent exactly until a Proposal message is accepted.
C23_ProposalNeverUnset ==
    /\ [](round_state.proposal = None => round_state.round = 0)
    /\ [][/\ round_state.proposal # None => round_state'.proposal # None
          /\ (/\ lastOp'.op = "dispatch"
              /\ lastOp'.type = "Proposal"
              /\ lastOp'.round >= round_state.round)
                => round_state'.proposal # None]_vars

\* In the last round a Proposal of an older round was just dispatched and
\* ignored: the block the timer installed is still the proposal.
C23_Witness ==
    /\ round_state.round = MaxRound
    /\ lastOp.op = "dispatch"
    /\ lastOp.type = "Proposal"
    /\ lastOp.round < round_state.round
    /\ round_state.proposal = Some(<<"block", uuids>>)

====
